---- MODULE Spec2Model ----
(***************************************************************************)
(* The lock-free LIFO of src/src/lifo.rs (AtomicOptionBox, Node, LifoPush) *)
(* as a state machine: the steps of list_empty, push, pop_all and of the   *)
(* construction LifoPush::default(), run by a main thread and two scoped   *)
(* worker threads.                                                         *)
(*                                                                         *)
(* AtomicOptionBox::default (lines 69-77) builds its value with the struct *)
(* update `Self { ptr, ..Default::default() }`.  The base expression has   *)
(* type Self, so it is a call of this same function, made unconditionally: *)
(* every call of default() nests another call and none returns.  Each call *)
(* takes a stack frame; the thread's stack is finite, and Rust's guard     *)
(* page turns the overflow into an abort of the whole process.  The three  *)
(* callers are Node::new (line 91, reached from push line 111), take (line *)
(* 55, reached from pop_all line 123, after the swap of line 51) and the   *)
(* derived LifoPush::default (line 100).  The code that follows those      *)
(* calls (Box::new and spin_swap in push, the walk of pop_all) is never    *)
(* reached, which is why no step of Spec allocates a node, runs a          *)
(* compare-and-swap or invokes the consumer.  (A build that turns the      *)
(* self-call into a jump spins in default() for ever instead of            *)
(* overflowing; in neither build does default() return.)                   *)
(*                                                                         *)
(* list_empty, push and pop_all take their receiver &self as given: a      *)
(* LifoPush whose top holds the null pointer that line 71 makes, with no   *)
(* node allocated.  Constructing one, LifoPush::default(), is an operation *)
(* of its own.                                                             *)
(***************************************************************************)
EXTENDS Integers, Sequences, FiniteSets, TLC

\* Frames a thread's stack holds before the guard page is hit.
StackLimit == 8

\* Addresses the allocator can hand out.
MaxNodes == 2

\* std::ptr::null_mut(), line 71 and line 50.
Null == 0

Addrs == 1..MaxNodes

\* An address that holds no box: never allocated, or freed (line 64).
Free == [free |-> TRUE]

Threads == {"main", "A", "B"}

Workers == {"A", "B"}

VARIABLES
    scenario,   \* the client program being run (fixed by Init)
    phase,      \* "pre": main alone; "par": the scoped workers; "post": main after the join; "done"
    script,     \* per thread: the calls it still has to make
    cur,        \* per thread: the call it is in, or made last
    pc,         \* per thread: its position in that call ("ready": between calls)
    depth,      \* per thread: frames on its stack
    top,        \* LifoPush.top.ptr
    heap,       \* the nodes: per address Free or a Node [val, next]
    p,          \* per thread: take's local p (line 51)
    ret,        \* per thread: what its last list_empty returned
    drains,     \* per thread: one log per pop_all invocation, the values handed to f
    xchg,       \* per thread: exchanges on top made by its current pop_all
    handed,     \* the values passed to push so far, in call order
    aborted,    \* the process was aborted (stack overflow)
    acq,        \* per thread: its exchange on top was made with at least Acquire
    new,        \* per thread: spin_swap's new, the node it is publishing (current is &new.next)
    head,       \* per thread: the ptr of the handle head of pop_all's loop, or of the slot unwrap is called on
    nxt,        \* per thread: pop_all's local next (line 127)
    item,       \* per thread: pop_all's local item (line 127)
    dropped,    \* the LifoPush itself was dropped
    ub          \* a freed node was read, written or freed again

\* The locals of the code behind the calls of default().
bodyVars == <<new, head, nxt, item, dropped, ub>>

vars == <<scenario, phase, script, cur, pc, depth, top, heap, p, ret, drains,
          xchg, handed, aborted, acq, bodyVars>>

----------------------------------------------------------------------------
(* The client programs: calls of the public interface. *)

Push(v) == [op |-> "push", val |-> v]

PopAll == [op |-> "pop_all", val |-> 0]

ListEmpty == [op |-> "list_empty", val |-> 0]

Construct == [op |-> "default", val |-> 0]

NoCall == [op |-> "none", val |-> 0]

Idle == [pre |-> <<>>, A |-> <<>>, B |-> <<>>, post |-> <<>>]

\* main runs pre, then the workers run A and B concurrently inside the scope,
\* then main runs post.
Program(s) ==
    CASE s = "construct" ->
           [Idle EXCEPT !.pre = <<Construct, ListEmpty>>]
      [] s = "empty_drain" ->
           [Idle EXCEPT !.pre = <<PopAll, PopAll>>]
      [] s = "lifo" ->
           [Idle EXCEPT !.pre = <<Push(1), Push(2), Push(3), PopAll>>]
      [] s = "paper" ->
           [Idle EXCEPT !.pre = <<Push(45)>>,
                        !.A = <<Push(67)>>,
                        !.B = <<PopAll, Push(89), PopAll>>]
      [] s = "stress" ->
           [Idle EXCEPT !.A = <<Push(1), Push(2)>>,
                        !.B = <<Push(3), Push(4)>>,
                        !.post = <<PopAll>>]
      [] s = "snapshot" ->
           [Idle EXCEPT !.pre = <<Push(1)>>,
                        !.A = <<PopAll>>,
                        !.B = <<Push(2)>>,
                        !.post = <<PopAll>>]
      [] s = "race" ->
           [Idle EXCEPT !.A = <<Push(1)>>,
                        !.B = <<PopAll, ListEmpty>>,
                        !.post = <<PopAll>>]
      [] s = "poll" ->
           [Idle EXCEPT !.pre = <<ListEmpty>>,
                        !.A = <<ListEmpty, ListEmpty>>,
                        !.B = <<ListEmpty>>,
                        !.post = <<ListEmpty>>]

Scenarios ==
    {"construct", "empty_drain", "lifo", "paper", "stress", "snapshot", "race", "poll"}

----------------------------------------------------------------------------
(* Pure parts of the code. *)

\* An emptiness test with the sense inverted.
is_some(ptr) == ptr # Null

\* AtomicOptionBox::is_none: the pointer is null.
is_none(ptr) == ptr = Null

\* The orderings the code passes: spin_swap's success and failure orderings
\* (line 116), take's (line 123), unwrap's (line 127).
push_success == "Release"

push_failure == "Relaxed"

take_order == "Relaxed"

unwrap_order == "Acquire"

AtLeastAcquire(o) == o \in {"Acquire", "AcqRel", "SeqCst"}

AtLeastRelease(o) == o \in {"Release", "AcqRel", "SeqCst"}

\* No value: the item of a thread that has unwrapped nothing.
NoItem == [val |-> 0, next |-> Null]

\* The values of the chain that starts at address a, head first.
RECURSIVE ChainVals(_, _)
ChainVals(h, a) ==
    IF a = Null \/ h[a] = Free THEN <<>>
    ELSE <<h[a].val>> \o ChainVals(h, h[a].next)

\* Where a call starts.
Entry(op) ==
    CASE op = "push" -> "push"
      [] op = "pop_all" -> "pop_all"
      [] op = "list_empty" -> "list_empty"
      [] op = "default" -> "LifoPush_default"

\* Which threads run in which phase (the scope of the test, lines 163-177).
Runs(t) == IF t = "main" THEN phase \in {"pre", "post"} ELSE phase = "par"

----------------------------------------------------------------------------

\* The receiver: an empty stack (top null, nothing allocated), no call made yet.
Init ==
    /\ scenario \in Scenarios
    /\ phase = "pre"
    /\ script = [t \in Threads |->
                   IF t = "main" THEN Program(scenario).pre
                   ELSE IF t = "A" THEN Program(scenario).A
                   ELSE Program(scenario).B]
    /\ cur = [t \in Threads |-> NoCall]
    /\ pc = [t \in Threads |-> "ready"]
    /\ depth = [t \in Threads |-> 0]
    /\ top = Null
    /\ heap = [a \in Addrs |-> Free]
    /\ p = [t \in Threads |-> Null]
    /\ ret = [t \in Threads |-> FALSE]
    /\ drains = [t \in Threads |-> <<>>]
    /\ xchg = [t \in Threads |-> 0]
    /\ handed = <<>>
    /\ aborted = FALSE
    /\ acq = [t \in Threads |-> FALSE]
    /\ new = [t \in Threads |-> Null]
    /\ head = [t \in Threads |-> Null]
    /\ nxt = [t \in Threads |-> Null]
    /\ item = [t \in Threads |-> NoItem]
    /\ dropped = FALSE
    /\ ub = FALSE

\* A thread makes its next call: the callee's frame is pushed.
Call(t) ==
    /\ ~aborted
    /\ Runs(t)
    /\ pc[t] = "ready"
    /\ script[t] # <<>>
    /\ LET c == Head(script[t]) IN
         /\ cur' = [cur EXCEPT ![t] = c]
         /\ pc' = [pc EXCEPT ![t] = Entry(c.op)]
         /\ handed' = IF c.op = "push" THEN Append(handed, c.val) ELSE handed
         /\ drains' = IF c.op = "pop_all"
                      THEN [drains EXCEPT ![t] = Append(@, <<>>)]
                      ELSE drains
         /\ xchg' = IF c.op = "pop_all" THEN [xchg EXCEPT ![t] = 0] ELSE xchg
    /\ script' = [script EXCEPT ![t] = Tail(@)]
    /\ depth' = [depth EXCEPT ![t] = 1]
    /\ UNCHANGED <<scenario, phase, top, heap, p, ret, aborted>>
    /\ UNCHANGED <<acq, bodyVars>>

\* list_empty (106-108): is_none's relaxed load of top, and the return.
list_empty(t) ==
    /\ ~aborted
    /\ pc[t] = "list_empty"
    /\ ret' = [ret EXCEPT ![t] = is_none(top)]
    /\ pc' = [pc EXCEPT ![t] = "ready"]
    /\ depth' = [depth EXCEPT ![t] = 0]
    /\ UNCHANGED <<scenario, phase, script, cur, top, heap, p, drains, xchg,
                   handed, aborted>>
    /\ UNCHANGED <<acq, bodyVars>>

\* push, line 111: the argument of Box::new is evaluated first, Node::new(val),
\* whose field next is Default::default() (line 91): two frames.
Node_new(t) ==
    /\ ~aborted
    /\ pc[t] = "push"
    /\ pc' = [pc EXCEPT ![t] = "default"]
    /\ depth' = [depth EXCEPT ![t] = @ + 2]
    /\ UNCHANGED <<scenario, phase, script, cur, top, heap, p, ret, drains,
                   xchg, handed, aborted>>
    /\ UNCHANGED <<acq, bodyVars>>

\* A take that reads top and leaves it in place.
take_copy(t) ==
    /\ ~aborted
    /\ pc[t] = "pop_all"
    /\ p' = [p EXCEPT ![t] = top]
    /\ xchg' = [xchg EXCEPT ![t] = @ + 1]
    /\ pc' = [pc EXCEPT ![t] = "take"]
    /\ depth' = [depth EXCEPT ![t] = @ + 1]
    /\ UNCHANGED <<scenario, phase, script, cur, top, heap, ret, drains, handed,
                   aborted, acq, bodyVars>>

\* pop_all, line 123, calls take: the exchange of line 51 swaps null into top,
\* with the ordering pop_all passes. The thread acquires what was released on
\* top only if that ordering is at least Acquire.
take(t) ==
    /\ ~aborted
    /\ pc[t] = "pop_all"
    /\ p' = [p EXCEPT ![t] = top]
    /\ top' = Null
    /\ xchg' = [xchg EXCEPT ![t] = @ + 1]
    /\ pc' = [pc EXCEPT ![t] = "take"]
    /\ depth' = [depth EXCEPT ![t] = @ + 1]
    /\ UNCHANGED <<scenario, phase, script, cur, heap, ret, drains, handed,
                   aborted>>
    /\ acq' = [acq EXCEPT ![t] = AtLeastAcquire(take_order)]
    /\ UNCHANGED bodyVars

\* take, lines 52-56: the handle is built with ..Default::default().
take_default(t) ==
    /\ ~aborted
    /\ pc[t] = "take"
    /\ pc' = [pc EXCEPT ![t] = "default"]
    /\ depth' = [depth EXCEPT ![t] = @ + 1]
    /\ UNCHANGED <<scenario, phase, script, cur, top, heap, p, ret, drains,
                   xchg, handed, aborted>>
    /\ UNCHANGED <<acq, bodyVars>>

\* The derived LifoPush::default (line 100) builds top with
\* AtomicOptionBox::default().
LifoPush_default(t) ==
    /\ ~aborted
    /\ pc[t] = "LifoPush_default"
    /\ pc' = [pc EXCEPT ![t] = "default"]
    /\ depth' = [depth EXCEPT ![t] = @ + 1]
    /\ UNCHANGED <<scenario, phase, script, cur, top, heap, p, ret, drains,
                   xchg, handed, aborted>>
    /\ UNCHANGED <<acq, bodyVars>>

\* AtomicOptionBox::default (70-75): makes the null ptr, then evaluates the
\* base expression Default::default(), a call of itself.
default(t) ==
    /\ ~aborted
    /\ pc[t] = "default"
    /\ depth[t] < StackLimit
    /\ depth' = [depth EXCEPT ![t] = @ + 1]
    /\ UNCHANGED <<scenario, phase, script, cur, pc, top, heap, p, ret, drains,
                   xchg, handed, aborted>>
    /\ UNCHANGED <<acq, bodyVars>>

\* The next frame does not fit: the process is aborted.
stack_overflow(t) ==
    /\ ~aborted
    /\ pc[t] = "default"
    /\ depth[t] = StackLimit
    /\ pc' = [pc EXCEPT ![t] = "overflow"]
    /\ aborted' = TRUE
    /\ UNCHANGED <<scenario, phase, script, cur, depth, top, heap, p, ret,
                   drains, xchg, handed>>
    /\ UNCHANGED <<acq, bodyVars>>

\* main has run its prologue: the scope spawns the workers (lines 163-168).
Spawn ==
    /\ ~aborted
    /\ phase = "pre"
    /\ pc["main"] = "ready"
    /\ script["main"] = <<>>
    /\ phase' = "par"
    /\ UNCHANGED <<scenario, script, cur, pc, depth, top, heap, p, ret, drains,
                   xchg, handed, aborted>>
    /\ UNCHANGED <<acq, bodyVars>>

\* The scope ends when both workers have returned (lines 176-177).
Join ==
    /\ ~aborted
    /\ phase = "par"
    /\ \A w \in Workers : pc[w] = "ready" /\ script[w] = <<>>
    /\ phase' = "post"
    /\ script' = [script EXCEPT !["main"] = Program(scenario).post]
    /\ UNCHANGED <<scenario, cur, pc, depth, top, heap, p, ret, drains, xchg,
                   handed, aborted>>
    /\ UNCHANGED <<acq, bodyVars>>

\* main has made its last call.
Exit ==
    /\ ~aborted
    /\ phase = "post"
    /\ pc["main"] = "ready"
    /\ script["main"] = <<>>
    /\ phase' = "done"
    /\ UNCHANGED <<scenario, script, cur, pc, depth, top, heap, p, ret, drains,
                   xchg, handed, aborted>>
    /\ UNCHANGED <<acq, bodyVars>>

Next ==
    \/ \E t \in Threads : Call(t)
    \/ \E t \in Threads : list_empty(t)
    \/ \E t \in Threads : Node_new(t)
    \/ \E t \in Threads : take(t)
    \/ \E t \in Threads : take_default(t)
    \/ \E t \in Threads : LifoPush_default(t)
    \/ \E t \in Threads : default(t)
    \/ \E t \in Threads : stack_overflow(t)
    \/ Spawn
    \/ Join
    \/ Exit

Spec == Init /\ [][Next]_vars

----------------------------------------------------------------------------
(* The code behind the calls of default(): spin_swap (20-41), unwrap       *)
(* (59-66), into_inner (95-97) and the loop of pop_all (125-130).  No run  *)
(* of Spec reaches it, so it is exercised on its own, function by          *)
(* function, each on arguments drawn from the values of its parameter      *)
(* types: a stack whose top owns a chain of nodes, handles that own        *)
(* detached chains, nodes handed to spin_swap.                             *)

\* The value of the nodes a drawn stack or handle already holds.
DrawnVal == 9

\* spin_swap as push calls it (lines 112-116) on a node that holds val.
SpinSwap(v) == [op |-> "spin_swap", val |-> v]

\* The loop of pop_all (lines 125-130) on the handle the thread holds.
Walk == [op |-> "walk", val |-> 0]

\* unwrap (lines 59-66) on the slot the thread holds.
Unwrap == [op |-> "unwrap", val |-> 0]

\* The calls each thread makes.
UnitScripts(t) ==
    CASE t = "main" -> {<<ListEmpty>>, <<Unwrap>>, <<PopAll>>}
      [] t = "A" -> {<<SpinSwap(1), SpinSwap(2)>>, <<Walk>>}
      [] t = "B" -> {<<SpinSwap(3)>>, <<Walk>>}

UnitEntry(op) ==
    CASE op = "spin_swap" -> "spin_swap"
      [] op = "walk" -> "walk"
      [] op = "unwrap" -> "unwrap_call"
      [] op = "pop_all" -> "pop_all"
      [] op = "list_empty" -> "list_empty"

\* Node::into_inner (95-97): the pair (next, val).
into_inner(n) == <<n.next, n.val>>

\* unwrap that hands out a default value on an empty slot instead of panicking.
unwrap_or_default(h, ptr) ==
    IF ptr = Null THEN [out |-> "value", node |-> NoItem, heap |-> h]
    ELSE IF h[ptr] = Free THEN [out |-> "ub", node |-> NoItem, heap |-> h]
    ELSE [out |-> "value", node |-> h[ptr], heap |-> [h EXCEPT ![ptr] = Free]]

\* AtomicOptionBox::unwrap (59-66) on a slot holding ptr, in heap h: a null
\* ptr panics and touches nothing; otherwise Box::from_raw(ptr) moves the node
\* out of its box and frees the box, which is a use after free when the box
\* was freed before. The slot itself is never written.
unwrap(h, ptr) ==
    IF ptr = Null THEN [out |-> "panic", node |-> NoItem, heap |-> h]
    ELSE IF h[ptr] = Free THEN [out |-> "ub", node |-> NoItem, heap |-> h]
    ELSE [out |-> "value", node |-> h[ptr], heap |-> [h EXCEPT ![ptr] = Free]]

\* A compare-and-swap that does not compare.
cas_always(slot, expected) == TRUE

\* compare_exchange_weak (line 29): the exchange may happen only when the
\* slot holds the expected pointer.
cas_may_succeed(slot, expected) == slot = expected

\* The nodes of the chain that starts at a: followed through next until null,
\* a freed node or a node seen before.
RECURSIVE ChainSet(_, _, _)
ChainSet(h, a, seen) ==
    IF a = Null \/ a \in seen THEN seen
    ELSE IF h[a] = Free THEN seen \cup {a}
    ELSE ChainSet(h, h[a].next, seen \cup {a})

\* The chain that starts at a is well formed: live nodes only, none twice,
\* ending at null.
RECURSIVE ChainOK(_, _, _)
ChainOK(h, a, seen) ==
    IF a = Null THEN TRUE
    ELSE IF a \in seen \/ h[a] = Free THEN FALSE
    ELSE ChainOK(h, h[a].next, seen \cup {a})

\* What thread t owns: the node it is publishing, the chain of its handle
\* (of next once the node of head has been moved out, of the next of the
\* node unwrap returned to it), the chain take detached for it.
Handle(t) ==
    IF pc[t] = "f" THEN nxt[t]
    ELSE IF cur[t].op = "unwrap" /\ pc[t] = "ready" THEN into_inner(item[t])[1]
    ELSE head[t]

Publishing(t) == IF pc[t] = "spin_swap" THEN {new[t]} \ {Null} ELSE {}

Owned(t) == Publishing(t) \cup ChainSet(heap, Handle(t), {}) \cup ChainSet(heap, p[t], {})

Shared == ChainSet(heap, top, {})

Allocated == {a \in Addrs : heap[a] # Free}

\* A stack and handles as the types allow them: top and every handle own a
\* well-formed chain, no node has two owners, every node has one.
UnitInit ==
    /\ scenario = "unit"
    /\ phase = "par"
    /\ script \in [Threads -> UNION {UnitScripts(t) : t \in Threads}]
    /\ \A t \in Threads : script[t] \in UnitScripts(t)
    /\ cur = [t \in Threads |-> NoCall]
    /\ pc = [t \in Threads |-> "ready"]
    /\ depth = [t \in Threads |-> 0]
    /\ top \in Addrs \cup {Null}
    /\ heap \in [Addrs -> {Free} \cup [val : {DrawnVal}, next : Addrs \cup {Null}]]
    /\ ChainOK(heap, top, {})
    /\ head \in [Threads -> Addrs \cup {Null}]
    /\ \A t \in Threads :
         /\ Head(script[t]).op \notin {"walk", "unwrap"} => head[t] = Null
         /\ ChainOK(heap, head[t], {})
         /\ ChainSet(heap, head[t], {}) \cap ChainSet(heap, top, {}) = {}
         /\ \A u \in Threads \ {t} :
              ChainSet(heap, head[t], {}) \cap ChainSet(heap, head[u], {}) = {}
    /\ \A a \in Addrs :
         heap[a] # Free =>
             a \in ChainSet(heap, top, {}) \cup UNION {ChainSet(heap, head[t], {}) : t \in Threads}
    /\ p = [t \in Threads |-> Null]
    /\ ret = [t \in Threads |-> FALSE]
    /\ drains = [t \in Threads |-> <<>>]
    /\ xchg = [t \in Threads |-> 0]
    /\ handed = <<>>
    /\ aborted = FALSE
    /\ acq = [t \in Threads |-> FALSE]
    /\ new = [t \in Threads |-> Null]
    /\ nxt = [t \in Threads |-> Null]
    /\ item = [t \in Threads |-> NoItem]
    /\ dropped = FALSE
    /\ ub = FALSE

\* A thread makes its next call. For spin_swap the caller first boxes the
\* node it was handed (lines 111-113): the box is at any free address, and
\* the node's next holds any pointer.
UnitCall(t) ==
    /\ ~aborted
    /\ ~dropped
    /\ pc[t] = "ready"
    /\ script[t] # <<>>
    /\ LET c == Head(script[t]) IN
         /\ cur' = [cur EXCEPT ![t] = c]
         /\ pc' = [pc EXCEPT ![t] = UnitEntry(c.op)]
         /\ drains' = IF c.op \in {"pop_all", "walk"}
                      THEN [drains EXCEPT ![t] = Append(@, <<>>)]
                      ELSE drains
         /\ xchg' = IF c.op = "pop_all" THEN [xchg EXCEPT ![t] = 0] ELSE xchg
         /\ IF c.op = "spin_swap"
            THEN /\ \E a \in Addrs, e \in Addrs \cup {Null} :
                      /\ heap[a] = Free
                      /\ heap' = [heap EXCEPT ![a] = [val |-> c.val, next |-> e]]
                      /\ new' = [new EXCEPT ![t] = a]
                 /\ handed' = Append(handed, c.val)
            ELSE UNCHANGED <<heap, new, handed>>
    /\ script' = [script EXCEPT ![t] = Tail(@)]
    /\ depth' = [depth EXCEPT ![t] = 1]
    /\ UNCHANGED <<scenario, phase, top, p, ret, aborted, acq, head, nxt, item,
                   dropped, ub>>

\* spin_swap, lines 28-32: the compare-and-swap finds the expected pointer
\* (*current, the next of the new node) in top and stores new; the loop ends
\* and spin_swap and push return without touching the node again.
cas_ok(t) ==
    /\ ~aborted
    /\ pc[t] = "spin_swap"
    /\ heap[new[t]] # Free
    /\ cas_may_succeed(top, heap[new[t]].next)
    /\ top' = new[t]
    /\ new' = [new EXCEPT ![t] = Null]
    /\ pc' = [pc EXCEPT ![t] = "ready"]
    /\ depth' = [depth EXCEPT ![t] = 0]
    /\ UNCHANGED <<scenario, phase, script, cur, heap, p, ret, drains, xchg,
                   handed, aborted, acq, head, nxt, item, dropped, ub>>

\* A failed compare-and-swap that has stored new in top all the same.
cas_fail_stores(t) ==
    /\ ~aborted
    /\ pc[t] = "spin_swap"
    /\ heap[new[t]] # Free
    /\ heap' = [heap EXCEPT ![new[t]].next = top]
    /\ top' = new[t]
    /\ UNCHANGED <<scenario, phase, script, cur, pc, depth, p, ret, drains,
                   xchg, handed, aborted, acq, new, head, nxt, item, dropped, ub>>

\* spin_swap, lines 33-38: the compare-and-swap fails (top holds another
\* pointer, or the weak exchange fails spuriously) and returns what top
\* holds, which is written into *current; the loop goes round.
cas_fail(t) ==
    /\ ~aborted
    /\ pc[t] = "spin_swap"
    /\ IF heap[new[t]] = Free
       THEN /\ ub' = TRUE
            /\ pc' = [pc EXCEPT ![t] = "ub"]
            /\ UNCHANGED heap
       ELSE /\ heap' = [heap EXCEPT ![new[t]].next = top]
            /\ UNCHANGED <<ub, pc>>
    /\ UNCHANGED <<scenario, phase, script, cur, depth, top, p, ret, drains,
                   xchg, handed, aborted, acq, new, head, nxt, item, dropped>>

\* pop_all, line 125: the loop guard on the thread's own handle.
walk_guard(t) ==
    /\ ~aborted
    /\ pc[t] = "walk"
    /\ pc' = [pc EXCEPT ![t] = IF is_none(head[t]) THEN "ready" ELSE "unwrap"]
    /\ depth' = [depth EXCEPT ![t] = IF is_none(head[t]) THEN 0 ELSE @]
    /\ UNCHANGED <<scenario, phase, script, cur, top, heap, p, ret, drains,
                   xchg, handed, aborted, acq, bodyVars>>

\* pop_all, line 127: head.unwrap(Acquire).into_inner(). The node of head is
\* moved out and its box freed; a null head panics; a head whose box is
\* already freed is a use after free.
walk_unwrap(t) ==
    /\ ~aborted
    /\ pc[t] = "unwrap"
    /\ LET r == unwrap(heap, head[t]) IN
         IF r.out = "panic"
         THEN /\ pc' = [pc EXCEPT ![t] = "panic"]
              /\ UNCHANGED <<heap, nxt, item, ub>>
         ELSE IF r.out = "ub"
         THEN /\ pc' = [pc EXCEPT ![t] = "ub"]
              /\ ub' = TRUE
              /\ UNCHANGED <<heap, nxt, item>>
         ELSE /\ pc' = [pc EXCEPT ![t] = "f"]
              /\ heap' = r.heap
              /\ nxt' = [nxt EXCEPT ![t] = into_inner(r.node)[1]]
              /\ item' = [item EXCEPT ![t] = r.node]
              /\ UNCHANGED ub
    /\ UNCHANGED <<scenario, phase, script, cur, depth, top, p, ret, drains,
                   xchg, handed, aborted, acq, new, head, dropped>>

\* pop_all, lines 128-129: f(item); head = next.
walk_f(t) ==
    /\ ~aborted
    /\ pc[t] = "f"
    /\ drains' = [drains EXCEPT ![t][Len(drains[t])] =
                                     Append(@, into_inner(item[t])[2])]
    /\ head' = [head EXCEPT ![t] = nxt[t]]
    /\ pc' = [pc EXCEPT ![t] = "walk"]
    /\ UNCHANGED <<scenario, phase, script, cur, depth, top, heap, p, ret,
                   xchg, handed, aborted, acq, new, nxt, item, dropped, ub>>

\* unwrap called on the slot the thread holds: it panics on null, and
\* otherwise returns the node, whose box it frees.
unwrap_call(t) ==
    /\ ~aborted
    /\ pc[t] = "unwrap_call"
    /\ LET r == unwrap(heap, head[t]) IN
         IF r.out = "panic"
         THEN /\ pc' = [pc EXCEPT ![t] = "panic"]
              /\ UNCHANGED <<heap, item, ub, depth>>
         ELSE IF r.out = "ub"
         THEN /\ pc' = [pc EXCEPT ![t] = "ub"]
              /\ ub' = TRUE
              /\ UNCHANGED <<heap, item, depth>>
         ELSE /\ pc' = [pc EXCEPT ![t] = "ready"]
              /\ depth' = [depth EXCEPT ![t] = 0]
              /\ heap' = r.heap
              /\ item' = [item EXCEPT ![t] = r.node]
              /\ UNCHANGED ub
    /\ UNCHANGED <<scenario, phase, script, cur, top, p, ret, drains, xchg,
                   handed, aborted, acq, new, head, nxt, dropped>>

\* Every thread is done (returned or panicked) and the LifoPush goes out of
\* scope. Neither LifoPush nor AtomicOptionBox implements Drop: the drop glue
\* drops the AtomicPtr, a plain pointer, and frees nothing.
drop_stack ==
    /\ ~aborted
    /\ ~dropped
    /\ \A t \in Threads : pc[t] \in {"ready", "panic"} /\ (pc[t] = "ready" => script[t] = <<>>)
    /\ dropped' = TRUE
    /\ UNCHANGED <<scenario, phase, script, cur, pc, depth, top, heap, p, ret,
                   drains, xchg, handed, aborted, acq, new, head, nxt, item, ub>>

UnitNext ==
    \/ \E t \in Threads : UnitCall(t)
    \/ \E t \in Threads : cas_ok(t)
    \/ \E t \in Threads : cas_fail(t)
    \/ \E t \in Threads : walk_guard(t)
    \/ \E t \in Threads : walk_unwrap(t)
    \/ \E t \in Threads : walk_f(t)
    \/ \E t \in Threads : unwrap_call(t)
    \/ \E t \in Threads : list_empty(t)
    \/ \E t \in Threads : take(t)
    \/ \E t \in Threads : take_default(t)
    \/ \E t \in Threads : default(t)
    \/ \E t \in Threads : stack_overflow(t)
    \/ drop_stack

UnitSpec == UnitInit /\ [][UnitNext]_vars

----------------------------------------------------------------------------
(* What a run delivered, and when it has ended. *)

\* The run is over: main made its last call, or the process was aborted.
Ended == aborted \/ phase = "done"

RECURSIVE Flatten(_)
Flatten(ss) == IF ss = <<>> THEN <<>> ELSE Head(ss) \o Flatten(Tail(ss))

RECURSIVE SumSeq(_)
SumSeq(s) == IF s = <<>> THEN 0 ELSE Head(s) + SumSeq(Tail(s))

Count(v, s) == Cardinality({i \in 1..Len(s) : s[i] = v})

Range(s) == {s[i] : i \in 1..Len(s)}

\* Every value any pop_all invocation of any thread handed to its consumer.
Delivered == Flatten(drains["main"]) \o Flatten(drains["A"]) \o Flatten(drains["B"])

\* i comes before j in s.
Before(i, j, s) ==
    \E m, n \in 1..Len(s) : m < n /\ s[m] = i /\ s[n] = j

\* Thread t's call has returned.
Returned(t) == pc[t] = "ready"

\* No other thread's stack overflow cut thread t's call short.
NotCutShort(t) == \A u \in Threads : pc[u] = "overflow" => u = t

----------------------------------------------------------------------------
(* The claims. *)

C4_PaperScenarioSpec ==
    scenario = "paper" =>
        /\ ~aborted
        /\ phase = "done" => SumSeq(Flatten(drains["B"])) \in {134, 201}

C7_ConstructEmptyStack ==
    (scenario = "construct" /\ Ended) =>
        /\ phase = "done"
        /\ top = Null
        /\ ret["main"] = TRUE

\* C8: empty-drain idempotence. pop_all on an empty stack, made once and made
\* again, invokes the consumer zero times, returns, and leaves the stack empty.
C8_EmptyDrainIdempotent ==
    (scenario = "empty_drain" /\ Ended) =>
        /\ phase = "done"
        /\ drains["main"] = << <<>>, <<>> >>
        /\ top = Null

\* C9: push cannot fail. Every push call returns, and when it has returned
\* its value is linked: in the chain under top, or already drained from it.
C9_PushReturns ==
    \A t \in Threads :
        (Ended /\ cur[t].op = "push" /\ NotCutShort(t)) =>
            /\ Returned(t)
            /\ Count(cur[t].val, ChainVals(heap, top) \o Delivered) = 1

\* C10: pop_all cannot fail. Every pop_all invocation makes exactly one
\* exchange on top, gets the detached chain from take, invokes the consumer
\* once per node of it, and returns.
C10_PopAllReturns ==
    \A t \in Threads :
        (Ended /\ cur[t].op = "pop_all" /\ NotCutShort(t)) =>
            /\ Returned(t)
            /\ xchg[t] = 1
            /\ Len(drains[t][Len(drains[t])]) = Len(ChainVals(heap, p[t]))

\* C11: release/acquire pairing. push publishes with at least Release, and
\* a pop_all that has read the pointer out of top has read it with at least
\* Acquire, on top itself, so that it sees the contents of the nodes.
C11_ReleaseAcquirePairing ==
    /\ AtLeastRelease(push_success)
    /\ \A t \in Threads : xchg[t] >= 1 => acq[t]

\* C12: unwrap on an empty slot fails fatally. A call of unwrap on a slot
\* whose pointer is null ends in a panic: it returns no value to the caller,
\* and it leaves the slot null and every node as it was.
C12_UnwrapOnEmptyPanics ==
    [][\A t \in Threads :
          (pc[t] = "unwrap_call" /\ head[t] = Null /\ pc'[t] # "unwrap_call") =>
              /\ pc'[t] = "panic"
              /\ head'[t] = Null
              /\ item'[t] = item[t]
              /\ heap' = heap]_vars

\* unwrap was called on an empty slot, and has panicked.
C12_Witness ==
    \E t \in Threads : cur[t].op = "unwrap" /\ head[t] = Null /\ pc[t] = "panic"

\* The nodes of the chains that have been detached from top: of the handles,
\* and of what take read out of top.
Detached ==
    UNION {ChainSet(heap, Handle(t), {}) \cup ChainSet(heap, p[t], {}) : t \in Threads}

\* C13: well-formed chain. In every state top is null or the address of a
\* live node, and following next from top visits live published nodes only
\* (no freed node, no detached node, no node still being published), no node
\* twice, and ends at null.
C13_WellFormedChain ==
    /\ ChainOK(heap, top, {})
    /\ Shared \cap Detached = {}
    /\ \A t \in Threads : Shared \cap Publishing(t) = {}

\* A pushed node was published on top of a drawn one after a drainer had
\* freed a node: with the addresses there are, at the freed node's address.
C13_Witness ==
    /\ top # Null
    /\ heap[top] # Free
    /\ heap[top].val # DrawnVal
    /\ heap[top].next # Null
    /\ \E t \in Threads : Flatten(drains[t]) # <<>>

\* How many owners an address has: the shared chain, and per thread the node
\* it is publishing, the chain of its handle, the chain take detached for it.
OwnerCount(a) ==
    (IF a \in Shared THEN 1 ELSE 0)
    + Cardinality({t \in Threads : a \in Publishing(t)})
    + Cardinality({t \in Threads : a \in ChainSet(heap, Handle(t), {})})
    + Cardinality({t \in Threads : a \in ChainSet(heap, p[t], {})})

\* C14: single ownership. Every allocated node has exactly one owner (the
\* pushing thread, the chain under top, or one drainer), a freed address has
\* none, and no thread has read, written or freed a node that was freed.
C14_SingleOwnership ==
    /\ ~ub
    /\ \A a \in Addrs : OwnerCount(a) = (IF heap[a] = Free THEN 0 ELSE 1)

\* A pop_all has detached a chain of nodes, and a push has since published
\* a node under top: both chains are owned, by different owners.
C14_Witness ==
    /\ \E t \in Threads : p[t] # Null /\ heap[p[t]] # Free
    /\ top # Null
    /\ heap[top] # Free
    /\ heap[top].val # DrawnVal

\* C15: immutability after publish. When a push's compare-and-swap succeeds,
\* the next of the node it stores in top is what top held just before; and a
\* node that is linked, under top or in a detached chain, is never written:
\* it stays as it is until the drainer whose handle points at it unwraps it.
C15_ImmutableAfterPublish ==
    [][/\ \A t \in Threads :
            (pc[t] = "spin_swap" /\ pc'[t] = "ready") =>
                /\ top' = new[t]
                /\ heap'[top'] # Free
                /\ heap'[top'].next = top
       /\ \A a \in Shared \cup Detached :
            \/ heap'[a] = heap[a]
            \/ /\ heap'[a] = Free
               /\ \E t \in Threads :
                    /\ pc[t] \in {"unwrap", "unwrap_call"}
                    /\ head[t] = a
                    /\ pc'[t] # pc[t]]_vars

\* Two pushes have succeeded: a pushed node is linked under top on top of
\* another pushed node.
C15_Witness ==
    /\ top # Null
    /\ heap[top] # Free
    /\ heap[top].val # DrawnVal
    /\ heap[top].next # Null
    /\ heap[heap[top].next] # Free
    /\ heap[heap[top].next].val # DrawnVal

\* C16: within pop_all the fatal path is unreachable. The loop calls unwrap
\* only on a handle whose pointer is not null, and no pop_all panics.
C16_PopAllNeverPanics ==
    \A t \in Threads :
        cur[t].op \in {"walk", "pop_all"} =>
            /\ pc[t] # "panic"
            /\ pc[t] = "unwrap" => head[t] # Null

\* The loop of pop_all has been round once and is about to unwrap the next
\* node of its chain.
C16_Witness ==
    \E t \in Threads :
        /\ cur[t].op = "walk"
        /\ pc[t] = "unwrap"
        /\ head[t] # Null
        /\ Flatten(drains[t]) # <<>>

\* C17: top changes only at a successful compare-and-swap of a push, which
\* stores that push's new node, and at the exchange of a pop_all, which
\* stores null. A failed compare-and-swap leaves top as it is and writes only
\* the next of the pusher's own node, with what top holds. No step, those of
\* list_empty and of the loop of pop_all included, writes a node linked
\* under top.
C17_TopChangesOnlyAtCasAndTake ==
    [][/\ top' # top =>
            \E t \in Threads :
                \/ pc[t] = "spin_swap" /\ pc'[t] = "ready" /\ top' = new[t]
                \/ pc[t] = "pop_all" /\ pc'[t] = "take" /\ top' = Null
       /\ (pc' = pc /\ heap' # heap) =>
            /\ top' = top
            /\ \E t \in Threads :
                 /\ pc[t] = "spin_swap"
                 /\ heap' = [heap EXCEPT ![new[t]].next = top]
       /\ \A t \in Threads :
            (pc[t] \in {"list_empty", "walk", "unwrap", "f"} /\ pc'[t] # pc[t]) =>
                top' = top
       /\ \A a \in Shared : heap'[a] = heap[a]]_vars

\* A pop_all's exchange has detached a chain and left null in top, and then
\* a push's compare-and-swap has stored its node, whose next is that null.
C17_Witness ==
    \E t \in Threads :
        /\ xchg[t] = 1
        /\ p[t] # Null
        /\ top # Null
        /\ heap[top] # Free
        /\ heap[top].val # DrawnVal
        /\ heap[top].next = Null

\* C18: every node is destroyed. The loop of pop_all frees a node's box when
\* it moves the node out, before the value is consumed and the next node is
\* visited; and once the stack itself has been dropped, no node that was
\* linked under top is still allocated.
C18_NoNodeOutlivesStack ==
    [][/\ \A t \in Threads :
            (pc[t] = "unwrap" /\ pc'[t] = "f") => heap'[head[t]] = Free
       /\ dropped' => \A a \in Shared' : heap'[a] = Free]_vars

====
